---- MODULE Spec2Model ----
(***************************************************************************)
(* scripts/import_all_phases.py: the bulk issue importer.                  *)
(*                                                                         *)
(* A Python str is a finite sequence of symbols.  The symbols of the row   *)
(* fields are single characters; a literal of the script that is never     *)
(* taken apart (an option name, the repository, a milestone, a message) is *)
(* one opaque symbol.  Non-ASCII characters of the script's literals (the  *)
(* en dash of the milestones, the emoji of the messages) are written in    *)
(* ASCII here.                                                             *)
(*                                                                         *)
(* The environment is the one the script requires: the gh client can be    *)
(* started, and a path that is a file can be opened and decoded.  A file   *)
(* is given by the rows csv.DictReader yields for it (blank lines are not  *)
(* rows).  log records the calls main() makes (print, is_file, open, the   *)
(* reader, subprocess.run) in program order; the buffering of sys.stdout   *)
(* is below this level.                                                    *)
(***************************************************************************)
EXTENDS Naturals, Sequences, FiniteSets

(***************************************************************************)
(* Bounds of the model.                                                    *)
(***************************************************************************)
\* Most rows, over all five files together, of an input of Spec/SpecTwice.
MaxRows == 2
\* Longest labels field of the one row of an input of SpecRow.
MaxLabelsLen == 3

(***************************************************************************)
(* Constants of the script.                                                *)
(***************************************************************************)
REPO_CONFIGURED == <<"pcharbon70/onto_view">>
PLACEHOLDER == <<"your-user/your-repo">>
DRY_RUN_FLAG == <<"--dry-run">>
SCRIPT == <<"import_all_phases.py">>

PHASE_FILES ==
  << [csv_path |-> <<"phase-1-issues.csv">>,
      milestone |-> <<"Phase 1 - Ontology Ingestion & Canonical Model">>],
     [csv_path |-> <<"phase-2-issues.csv">>,
      milestone |-> <<"Phase 2 - LiveView Textual Documentation UI">>],
     [csv_path |-> <<"phase-3-issues.csv">>,
      milestone |-> <<"Phase 3 - Interactive Graph Visualization">>],
     [csv_path |-> <<"phase-4-issues.csv">>,
      milestone |-> <<"Phase 4 - UX, Property Docs & Accessibility">>],
     [csv_path |-> <<"phase-5-issues.csv">>,
      milestone |-> <<"Phase 5 - Export, CI/CD & Deployment">> ] >>

NumFiles == Len(PHASE_FILES)

(***************************************************************************)
(* str and shlex of the standard library, as the script uses them.         *)
(***************************************************************************)
\* The characters str.strip() removes (the two the inputs draw from).
Whitespace == {" ", "\t"}

\* The symbols shlex.quote leaves unquoted: [\w@%+=:,./-]+ .
SafeSymbols ==
  { "a", "b", "x", "y", ",",
    "gh", "issue", "create", "--repo", "--title", "--body", "--milestone",
    "--label", "pcharbon70/onto_view", "your-user/your-repo" }

RECURSIVE LStrip(_)
LStrip(s) ==
  IF s # <<>> /\ Head(s) \in Whitespace THEN LStrip(Tail(s)) ELSE s

RECURSIVE RStrip(_)
RStrip(s) ==
  IF s # <<>> /\ s[Len(s)] \in Whitespace
    THEN RStrip(SubSeq(s, 1, Len(s) - 1))
    ELSE s

\* str.strip()
Strip(s) == RStrip(LStrip(s))

\* str.split(","): at least one segment, the comma never part of one.
RECURSIVE SplitComma(_)
SplitComma(s) ==
  IF \A i \in 1..Len(s) : s[i] # ","
    THEN << s >>
    ELSE LET i == CHOOSE k \in 1..Len(s) :
                    s[k] = "," /\ \A j \in 1..(k - 1) : s[j] # ","
         IN  << SubSeq(s, 1, i - 1) >> \o SplitComma(SubSeq(s, i + 1, Len(s)))

\* s.replace("'", "'\"'\"'")
RECURSIVE ReplaceQuote(_)
ReplaceQuote(s) ==
  IF s = <<>> THEN <<>>
  ELSE (IF Head(s) = "'" THEN <<"'", "\"", "'", "\"", "'">> ELSE << Head(s) >>)
       \o ReplaceQuote(Tail(s))

\* shlex.quote
Quote(s) ==
  IF s = <<>> THEN <<"''">>
  ELSE IF \A i \in 1..Len(s) : s[i] \in SafeSymbols THEN s
  ELSE <<"'">> \o ReplaceQuote(s) \o <<"'">>

\* " ".join(shlex.quote(c) for c in cmd)
RECURSIVE JoinQuoted(_)
JoinQuoted(cmd) ==
  IF cmd = <<>> THEN <<>>
  ELSE IF Len(cmd) = 1 THEN Quote(cmd[1])
  ELSE Quote(cmd[1]) \o <<" ">> \o JoinQuoted(Tail(cmd))

(***************************************************************************)
(* The lines the script prints.                                            *)
(***************************************************************************)
FatalLine == <<"Please edit REPO in import_all_phases.py before running.">>
WarnFileLine(fi) ==
  <<"Skipping ">> \o PHASE_FILES[fi].csv_path \o <<": file not found.">>
HeaderLine(fi) ==
  <<"\n=== Importing ">> \o PHASE_FILES[fi].csv_path \o <<" -> milestone '">>
    \o PHASE_FILES[fi].milestone \o <<"' ===">>
WarnRowLine == <<"Skipping row with empty title.">>
CmdLine(c) == <<"$ ">> \o JoinQuoted(c)
DoneLine == <<"\nDone importing issues.">>

(***************************************************************************)
(* One row of csv.DictReader: a function from the columns the row has to   *)
(* their text.  row.get(k) is None exactly when k is not in its domain.    *)
(***************************************************************************)
\* row.get(k) or ""
GetOrEmpty(row, k) == IF k \in DOMAIN row THEN row[k] ELSE <<>>

\* Mutant of RowTitle: the title is not stripped.
RowTitle_Unstripped(row) == GetOrEmpty(row, "title")

RowTitle(row) == Strip(GetOrEmpty(row, "title"))
RowBody(row) == GetOrEmpty(row, "body")
RECURSIVE StripEach(_)
StripEach(segs) ==
  IF segs = <<>> THEN <<>>
  ELSE (IF Strip(Head(segs)) # <<>> THEN << Strip(Head(segs)) >> ELSE <<>>)
       \o StripEach(Tail(segs))
\* Mutant of RowLabels: the segments kept are not stripped.
RowLabels_Unstripped(row) ==
  SelectSeq(SplitComma(Strip(GetOrEmpty(row, "labels"))),
            LAMBDA l : Strip(l) # <<>>)

RowLabels(row) == StripEach(SplitComma(Strip(GetOrEmpty(row, "labels"))))

RECURSIVE LabelArgs(_)
LabelArgs(labels) ==
  IF labels = <<>> THEN <<>>
  ELSE << <<"--label">>, Head(labels) >> \o LabelArgs(Tail(labels))

BuildCmd(repo, row, milestone) ==
  << <<"gh">>, <<"issue">>, <<"create">>, <<"--repo">>, repo,
     <<"--title">>, RowTitle(row), <<"--body">>, RowBody(row),
     <<"--milestone">>, milestone >> \o LabelArgs(RowLabels(row))

(***************************************************************************)
(* State.                                                                  *)
(***************************************************************************)
VARIABLES
  REPO,         \* the module constant REPO, as edited by the user
  argv,         \* sys.argv
  fs,           \* the five paths: [is_file, rows] (rows: what DictReader yields)
  pc,           \* position of main()
  dry_run,      \* local of main()
  fi,           \* index into PHASE_FILES of the outer loop
  ri,           \* number of the row the reader yields next
  cmd,          \* local of main()
  running,      \* child processes started and not yet waited for
  exit_status,  \* <<>> while the process runs, <<n>> once it exited with n
  log,          \* what the process did so far, in order
  prev_stdout   \* stdout of the preceding run of a session (SpecTwice)

vars == << REPO, argv, fs, pc, dry_run, fi, ri, cmd, running, exit_status,
           log, prev_stdout >>

\* An entry of log.  ev: "print" (a line on stdout), "is_file", "open",
\* "read" (the reader yields row r of file f), "spawn" (subprocess.run starts
\* cmd), "returned" (the child ended with rc).  f, r: the loop position.
Event(ev, f, r, line, c, rc) ==
  [ev |-> ev, f |-> f, r |-> r, line |-> line, cmd |-> c, rc |-> rc]
Printed(f, r, line) == Event("print", f, r, line, <<>>, 0)

\* The return codes of the child
ReturnCodes == {0, 1}

(***************************************************************************)
(* Inputs.                                                                 *)
(***************************************************************************)
ArgvSet == { << SCRIPT >>, << SCRIPT, DRY_RUN_FLAG >> }
RepoSet == { REPO_CONFIGURED, PLACEHOLDER }

\* Rows of Spec and SpecTwice: the cases of the title.
CtlRows ==
  { [title |-> <<" ", "a">>, body |-> <<"b">>, labels |-> <<"x", ",", "y">>],
    [title |-> <<" ", "\t">>, body |-> <<"b">>],
    [title |-> <<>>, labels |-> <<"x">>],
    [body |-> <<"b">>, labels |-> <<"x">>] }

RECURSIVE RowsOf(_, _, _)
\* The rows among rws[1..n] placed in file f by at.
RowsOf(f, at, rws) ==
  IF rws = <<>> THEN <<>>
  ELSE (IF Head(at) = f THEN << Head(rws) >> ELSE <<>>)
       \o RowsOf(f, Tail(at), Tail(rws))

StartOfRun ==
  /\ pc = "start"
  /\ dry_run = FALSE
  /\ fi = 0
  /\ ri = 0
  /\ cmd = <<>>
  /\ running = {}
  /\ exit_status = <<>>
  /\ log = <<>>

\* Every placement of at most MaxRows rows in the files that exist.
Init ==
  /\ REPO \in RepoSet
  /\ argv \in ArgvSet
  /\ \E present \in SUBSET (1..NumFiles), n \in 0..MaxRows :
       \E at \in [1..n -> present], rws \in [1..n -> CtlRows] :
          /\ \A i \in 1..n, j \in 1..n : i < j => at[i] <= at[j]
          /\ fs = [f \in 1..NumFiles |->
                     [is_file |-> f \in present, rows |-> RowsOf(f, at, rws)]]
  /\ StartOfRun
  /\ prev_stdout = <<>>

(***************************************************************************)
(* main()                                                                  *)
(***************************************************************************)
\* Mutant of Exit: the status is lost.
Exit_AlwaysZero(status) ==
  /\ pc' = "exited"
  /\ exit_status' = << 0 >>

Exit(status) ==
  /\ pc' = "exited"
  /\ exit_status' = << status >>

\* Mutant of RepoNotEdited: the message is printed, sys.exit(1) is missing.
RepoNotEdited_NoExit ==
  /\ pc = "start"
  /\ REPO = PLACEHOLDER
  /\ log' = Append(log, Printed(fi, ri, FatalLine))
  /\ fi' = 1
  /\ pc' = "for_file"
  /\ UNCHANGED << REPO, argv, fs, dry_run, ri, cmd, running, exit_status,
                  prev_stdout >>

\* lines 22-24: the placeholder check fails; sys.exit(1)
RepoNotEdited ==
  /\ pc = "start"
  /\ REPO = PLACEHOLDER
  /\ log' = Append(log, Printed(fi, ri, FatalLine))
  /\ Exit(1)
  /\ UNCHANGED << REPO, argv, fs, dry_run, fi, ri, cmd, running, prev_stdout >>

\* Mutant of ParseArgs: the flag is not looked for.
ParseArgs_NoDryRun ==
  /\ pc = "start"
  /\ REPO # PLACEHOLDER
  /\ dry_run' = FALSE
  /\ fi' = 1
  /\ pc' = "for_file"
  /\ UNCHANGED << REPO, argv, fs, ri, cmd, running, exit_status, log,
                  prev_stdout >>

\* lines 22, 26: the check passes; dry_run is read from sys.argv
ParseArgs ==
  /\ pc = "start"
  /\ REPO # PLACEHOLDER
  /\ dry_run' = (\E i \in 1..Len(argv) : argv[i] = DRY_RUN_FLAG)
  /\ fi' = 1
  /\ pc' = "for_file"
  /\ UNCHANGED << REPO, argv, fs, ri, cmd, running, exit_status, log,
                  prev_stdout >>

\* Mutant of SkipFile: a missing file is fatal.
SkipFile_Abort ==
  /\ pc = "for_file"
  /\ fi <= NumFiles
  /\ ~fs[fi].is_file
  /\ log' = log \o << Event("is_file", fi, 0, <<>>, <<>>, 0),
                      Printed(fi, 0, WarnFileLine(fi)) >>
  /\ Exit(1)
  /\ UNCHANGED << REPO, argv, fs, dry_run, fi, ri, cmd, running, prev_stdout >>

\* lines 28-32: the next pair names no file
SkipFile ==
  /\ pc = "for_file"
  /\ fi <= NumFiles
  /\ ~fs[fi].is_file
  /\ log' = log \o << Event("is_file", fi, 0, <<>>, <<>>, 0),
                      Printed(fi, 0, WarnFileLine(fi)) >>
  /\ fi' = fi + 1
  /\ UNCHANGED << REPO, argv, fs, pc, dry_run, ri, cmd, running, exit_status,
                  prev_stdout >>

\* lines 28-37: the next pair names a file; it is opened
OpenFile ==
  /\ pc = "for_file"
  /\ fi <= NumFiles
  /\ fs[fi].is_file
  /\ log' = log \o << Event("is_file", fi, 0, <<>>, <<>>, 0),
                      Printed(fi, 0, HeaderLine(fi)),
                      Event("open", fi, 0, <<>>, <<>>, 0) >>
  /\ ri' = 1
  /\ pc' = "for_row"
  /\ UNCHANGED << REPO, argv, fs, dry_run, fi, cmd, running, exit_status,
                  prev_stdout >>

\* line 38: the reader is exhausted; the with block ends, next pair
EndOfFile ==
  /\ pc = "for_row"
  /\ ri > Len(fs[fi].rows)
  /\ fi' = fi + 1
  /\ pc' = "for_file"
  /\ UNCHANGED << REPO, argv, fs, dry_run, ri, cmd, running, exit_status, log,
                  prev_stdout >>

\* lines 38-48: the next row has no title
SkipRow ==
  /\ pc = "for_row"
  /\ ri <= Len(fs[fi].rows)
  /\ RowTitle(fs[fi].rows[ri]) = <<>>
  /\ log' = log \o << Event("read", fi, ri, <<>>, <<>>, 0),
                      Printed(fi, ri, WarnRowLine) >>
  /\ ri' = ri + 1
  /\ UNCHANGED << REPO, argv, fs, pc, dry_run, fi, cmd, running, exit_status,
                  prev_stdout >>

\* lines 38-65: the next row has a title; its command is built
BuildRow ==
  /\ pc = "for_row"
  /\ ri <= Len(fs[fi].rows)
  /\ RowTitle(fs[fi].rows[ri]) # <<>>
  /\ log' = Append(log, Event("read", fi, ri, <<>>, <<>>, 0))
  /\ cmd' = BuildCmd(REPO, fs[fi].rows[ri], PHASE_FILES[fi].milestone)
  /\ pc' = "print"
  /\ UNCHANGED << REPO, argv, fs, dry_run, fi, ri, running, exit_status,
                  prev_stdout >>

\* Mutant of PrintCmd: the command is printed in a dry run only.
PrintCmd_DryRunOnly ==
  /\ pc = "print"
  /\ IF dry_run
       THEN /\ log' = Append(log, Printed(fi, ri, CmdLine(cmd)))
            /\ pc' = "for_row"
            /\ ri' = ri + 1
       ELSE /\ log' = log
            /\ pc' = "run"
            /\ ri' = ri
  /\ UNCHANGED << REPO, argv, fs, dry_run, fi, cmd, running, exit_status,
                  prev_stdout >>

\* lines 67-69: the command is printed; in a dry run that is all
PrintCmd ==
  /\ pc = "print"
  /\ log' = Append(log, Printed(fi, ri, CmdLine(cmd)))
  /\ IF dry_run
       THEN pc' = "for_row" /\ ri' = ri + 1
       ELSE pc' = "run" /\ ri' = ri
  /\ UNCHANGED << REPO, argv, fs, dry_run, fi, cmd, running, exit_status,
                  prev_stdout >>

\* Mutant of RunCmd: the child is started and not waited for.
RunCmd_NoWait ==
  /\ pc = "run"
  /\ log' = Append(log, Event("spawn", fi, ri, <<>>, cmd, 0))
  /\ running' = running \cup { << fi, ri >> }
  /\ ri' = ri + 1
  /\ pc' = "for_row"
  /\ UNCHANGED << REPO, argv, fs, dry_run, fi, cmd, exit_status, prev_stdout >>

\* line 70: subprocess.run starts the child and waits for it
RunCmd ==
  /\ pc = "run"
  /\ log' = Append(log, Event("spawn", fi, ri, <<>>, cmd, 0))
  /\ running' = running \cup { << fi, ri >> }
  /\ pc' = "wait"
  /\ UNCHANGED << REPO, argv, fs, dry_run, fi, ri, cmd, exit_status,
                  prev_stdout >>

\* Mutant of CmdSucceeds: the row after a created issue is passed over.
CmdSucceeds_SkipsNext ==
  /\ pc = "wait"
  /\ running # {}
  /\ log' = Append(log, Event("returned", fi, ri, <<>>, cmd, 0))
  /\ running' = running \ { << fi, ri >> }
  /\ ri' = ri + 2
  /\ pc' = "for_row"
  /\ UNCHANGED << REPO, argv, fs, dry_run, fi, cmd, exit_status, prev_stdout >>

\* line 70: the child returns 0; next row
CmdSucceeds ==
  /\ pc = "wait"
  /\ running # {}
  /\ log' = Append(log, Event("returned", fi, ri, <<>>, cmd, 0))
  /\ running' = running \ { << fi, ri >> }
  /\ ri' = ri + 1
  /\ pc' = "for_row"
  /\ UNCHANGED << REPO, argv, fs, dry_run, fi, cmd, exit_status, prev_stdout >>

\* Mutant of CmdFails: the status of the child is not checked.
CmdFails_Unchecked ==
  /\ pc = "wait"
  /\ running # {}
  /\ \E rc \in ReturnCodes \ {0} :
       log' = Append(log, Event("returned", fi, ri, <<>>, cmd, rc))
  /\ running' = running \ { << fi, ri >> }
  /\ ri' = ri + 1
  /\ pc' = "for_row"
  /\ UNCHANGED << REPO, argv, fs, dry_run, fi, cmd, exit_status, prev_stdout >>

\* line 70: the child returns non-zero; check=True raises CalledProcessError,
\* nothing catches it, the interpreter exits with status 1
CmdFails ==
  /\ pc = "wait"
  /\ running # {}
  /\ \E rc \in ReturnCodes \ {0} :
       log' = Append(log, Event("returned", fi, ri, <<>>, cmd, rc))
  /\ running' = running \ { << fi, ri >> }
  /\ Exit(1)
  /\ UNCHANGED << REPO, argv, fs, dry_run, fi, ri, cmd, prev_stdout >>

\* lines 28, 72: no pair is left; the completion message, return
Finish ==
  /\ pc = "for_file"
  /\ fi > NumFiles
  /\ log' = Append(log, Printed(fi, 0, DoneLine))
  /\ Exit(0)
  /\ UNCHANGED << REPO, argv, fs, dry_run, fi, ri, cmd, running, prev_stdout >>

Next ==
  \/ RepoNotEdited
  \/ ParseArgs
  \/ SkipFile
  \/ OpenFile
  \/ EndOfFile
  \/ SkipRow
  \/ BuildRow
  \/ PrintCmd
  \/ RunCmd
  \/ CmdSucceeds
  \/ CmdFails
  \/ Finish

Spec == Init /\ [][Next]_vars

(***************************************************************************)
(* SpecRow: one file holds one row, drawn from every combination of the    *)
(* field texts below; the other four paths name no file.                   *)
(***************************************************************************)
StrUpTo(alphabet, n) == UNION { [1..k -> alphabet] : k \in 0..n }

\* A field is given as <<>> (the column is missing) or << text >>.
TitleFields ==
  { <<>>, << <<>> >>, << <<" ">> >>, << <<"a">> >>, << <<"\t", "a", " ">> >>,
    << <<"a", " ", "b">> >> }
BodyFields == { <<>>, << <<>> >>, << <<" ", "b", "'", " ">> >> }
LabelsFields ==
  { <<>> } \cup { << l >> : l \in StrUpTo({" ", ",", "x", "y"}, MaxLabelsLen) }

MkRow(t, b, l) ==
  [k \in (IF t = <<>> THEN {} ELSE {"title"})
         \cup (IF b = <<>> THEN {} ELSE {"body"})
         \cup (IF l = <<>> THEN {} ELSE {"labels"}) |->
     IF k = "title" THEN t[1] ELSE IF k = "body" THEN b[1] ELSE l[1]]

InitRow ==
  /\ REPO \in RepoSet
  /\ argv \in ArgvSet
  /\ \E g \in 1..NumFiles, t \in TitleFields, b \in BodyFields,
        l \in LabelsFields :
       fs = [f \in 1..NumFiles |->
               [is_file |-> f = g,
                rows |-> IF f = g THEN << MkRow(t, b, l) >> ELSE <<>>]]
  /\ StartOfRun
  /\ prev_stdout = <<>>

SpecRow == InitRow /\ [][Next]_vars

(***************************************************************************)
(* SpecTwice: a session.  The script is run with --dry-run and then, over  *)
(* the same files and the same REPO, without it.                           *)
(***************************************************************************)
RECURSIVE Stdout(_)
\* The lines of the "print" entries of l, in order.
Stdout(l) ==
  IF l = <<>> THEN <<>>
  ELSE (IF Head(l).ev = "print" THEN << Head(l).line >> ELSE <<>>)
       \o Stdout(Tail(l))

InitTwice ==
  /\ Init
  /\ argv = << SCRIPT, DRY_RUN_FLAG >>

\* lines 75-76: the script is started again, this time without the flag
Rerun ==
  /\ pc = "exited"
  /\ argv = << SCRIPT, DRY_RUN_FLAG >>
  /\ prev_stdout' = Stdout(log)
  /\ argv' = << SCRIPT >>
  /\ pc' = "start"
  /\ dry_run' = FALSE
  /\ fi' = 0
  /\ ri' = 0
  /\ cmd' = <<>>
  /\ running' = {}
  /\ exit_status' = <<>>
  /\ log' = <<>>
  /\ UNCHANGED << REPO, fs >>

NextTwice == Next \/ Rerun

SpecTwice == InitTwice /\ [][NextTwice]_vars

(***************************************************************************)
(* The claims.  Each is stated over the inputs (REPO, argv, fs) and over   *)
(* log, in words of its own: the texts below are not those main() uses.    *)
(***************************************************************************)
\* "--dry-run" is among the arguments
DryRunMode == \E i \in 1..Len(argv) : argv[i] = DRY_RUN_FLAG

\* The title is missing, empty or made of whitespace only.
Untitled(row) ==
  \/ "title" \notin DOMAIN row
  \/ \A i \in 1..Len(row["title"]) : row["title"][i] \in Whitespace

IsCmdLine(e) == e.ev = "print" /\ e.line # <<>> /\ Head(e.line) = "$ "
IsFailure(e) == e.ev = "returned" /\ e.rc # 0
LogIdx == 1..Len(log)
Count(P(_)) == Cardinality({ i \in LogIdx : P(log[i]) })

\* The process has left pair f behind.
Passed(f) == pc \in {"for_file", "for_row", "print", "run", "wait"} /\ fi > f

\* The entry that begins the next pair, or ends the run after the last one.
BeginsPairAfter(e, f) ==
  IF f < NumFiles
    THEN e.ev = "is_file" /\ e.f = f + 1
    ELSE e.ev = "print" /\ e.line = DoneLine

\* C1: in normal mode, a non-zero status of the external command ends the
\* run at once: the failing return is the last thing the process does (no
\* later row or file is read, printed or run) and the process has exited with
\* a non-zero status.
C1_FailureAborts ==
  \A i \in LogIdx :
    IsFailure(log[i]) =>
      /\ i = Len(log)
      /\ ~DryRunMode
      /\ pc = "exited"
      /\ exit_status # <<>> /\ exit_status # << 0 >>
      /\ running = {}

\* C1 witness: a command failed while a row of the same file and a later
\* file were still to come.
C1_Witness ==
  /\ pc = "exited"
  /\ log # <<>>
  /\ IsFailure(log[Len(log)])
  /\ log[Len(log)].r < Len(fs[log[Len(log)].f].rows)
  /\ \E g \in 1..NumFiles : g > log[Len(log)].f /\ fs[g].is_file

RECURSIVE ExpectedOfRows(_, _)
\* The command lines of the titled rows among rows, in order, for pair f.
ExpectedOfRows(f, rows) ==
  IF rows = <<>> THEN <<>>
  ELSE (IF Untitled(Head(rows)) THEN <<>>
        ELSE << CmdLine(BuildCmd(REPO, Head(rows), PHASE_FILES[f].milestone)) >>)
       \o ExpectedOfRows(f, Tail(rows))

RECURSIVE ExpectedFrom(_)
\* The command lines of pairs f..NumFiles, in order.
ExpectedFrom(f) ==
  IF f > NumFiles THEN <<>>
  ELSE (IF fs[f].is_file THEN ExpectedOfRows(f, fs[f].rows) ELSE <<>>)
       \o ExpectedFrom(f + 1)

\* One command per titled row of every existing file.
ExpectedLines == IF REPO = PLACEHOLDER THEN <<>> ELSE ExpectedFrom(1)

RECURSIVE CmdLinesOf(_)
\* The command lines ("$ ...") among the lines out, in order.
CmdLinesOf(out) ==
  IF out = <<>> THEN <<>>
  ELSE (IF Head(out) # <<>> /\ Head(Head(out)) = "$ "
          THEN << Head(out) >> ELSE <<>>)
       \o CmdLinesOf(Tail(out))

IsPrefix(s, t) == Len(s) <= Len(t) /\ s = SubSeq(t, 1, Len(s))

\* C2: in dry-run mode the external tool is never started, whatever the
\* files hold, and once the run has ended every command it would have run
\* (one per titled row of every existing file) has been printed, in order.
C2_DryRunNeverInvokes ==
  DryRunMode =>
    /\ \A i \in LogIdx : log[i].ev \notin {"spawn", "returned"}
    /\ running = {}
    /\ IsPrefix(CmdLinesOf(Stdout(log)), ExpectedLines)
    /\ pc = "exited" => CmdLinesOf(Stdout(log)) = ExpectedLines

\* C2 witness: a dry run ended after printing two commands.
C2_Witness ==
  /\ DryRunMode
  /\ pc = "exited"
  /\ Len(CmdLinesOf(Stdout(log))) = 2

\* C3: with REPO left at the placeholder the run exits non-zero before it
\* checks, opens or reads a file, prints a command or starts the external
\* tool, in both modes: all it ever does is print the fatal message.
C3_PlaceholderAbortsFirst ==
  REPO = PLACEHOLDER =>
    /\ pc \in {"start", "exited"}
    /\ \A i \in LogIdx : log[i].ev = "print" /\ log[i].line = FatalLine
    /\ running = {}
    /\ pc = "exited" => (exit_status = << 1 >> /\ Len(log) = 1)

\* C3 witness: the placeholder run has exited, with files present and in a
\* dry run.
C3_Witness ==
  /\ REPO = PLACEHOLDER
  /\ pc = "exited"
  /\ DryRunMode
  /\ \E f \in 1..NumFiles : fs[f].is_file /\ fs[f].rows # <<>>

\* C4: for each pair whose file is absent the run gives exactly one
\* warning, prints and runs no command for it, never opens or reads it, and
\* goes on with the next pair (or ends normally after the last one).
C4_AbsentFileSkipped ==
  \A f \in 1..NumFiles :
    ~fs[f].is_file =>
      /\ \A i \in LogIdx :
           log[i].f = f =>
             \/ log[i].ev = "is_file"
             \/ log[i].ev = "print" /\ log[i].line = WarnFileLine(f)
      /\ LET warned(e) == e.ev = "print" /\ e.line = WarnFileLine(f)
         IN  /\ Count(warned) <= 1
             /\ Passed(f) => Count(warned) = 1
             /\ \A i \in LogIdx :
                  warned(log[i]) =>
                    IF i < Len(log)
                      THEN BeginsPairAfter(log[i + 1], f)
                      ELSE pc = "for_file" /\ fi = f + 1 /\ exit_status = <<>>

\* C4 witness: an absent file was passed and a later file gave a command.
C4_Witness ==
  \E f \in 1..NumFiles :
    /\ ~fs[f].is_file
    /\ Passed(f)
    /\ \E i \in LogIdx : IsCmdLine(log[i]) /\ log[i].f > f

\* C5: a row whose title is missing, empty or whitespace-only is skipped
\* with exactly one warning, gives no printed command and no invocation, and
\* the run goes on with the next row (or, after the last row, the next pair);
\* so whenever a command has been built its title is not empty.
C5_UntitledRowSkipped ==
  /\ \A i \in LogIdx :
       (log[i].ev = "read" /\ Untitled(fs[log[i].f].rows[log[i].r])) =>
         LET f == log[i].f
             r == log[i].r
             here(e) == e.f = f /\ e.r = r
             warned(e) == here(e) /\ e.ev = "print" /\ e.line = WarnRowLine
         IN  /\ i < Len(log)
             /\ warned(log[i + 1])
             /\ Count(warned) = 1
             /\ \A j \in LogIdx :
                  here(log[j]) => ~IsCmdLine(log[j]) /\ log[j].ev # "spawn"
             /\ IF i + 1 < Len(log)
                  THEN IF r < Len(fs[f].rows)
                         THEN /\ log[i + 2].ev = "read"
                              /\ log[i + 2].f = f
                              /\ log[i + 2].r = r + 1
                         ELSE BeginsPairAfter(log[i + 2], f)
                  ELSE \/ pc = "for_row" /\ fi = f /\ ri = r + 1
                       \/ pc = "for_file" /\ fi = f + 1 /\ r = Len(fs[f].rows)
  /\ pc \in {"print", "run", "wait"} =>
       /\ ~Untitled(fs[fi].rows[ri])
       /\ cmd[7] # <<>>
       /\ cmd[7][1] \notin Whitespace

\* C5 witness: a row with a whitespace-only title was skipped and the row
\* after it, in the same file, gave a command.
C5_Witness ==
  \E i \in LogIdx :
    /\ log[i].ev = "read"
    /\ "title" \in DOMAIN fs[log[i].f].rows[log[i].r]
    /\ fs[log[i].f].rows[log[i].r]["title"] # <<>>
    /\ Untitled(fs[log[i].f].rows[log[i].r])
    /\ \E j \in LogIdx :
         IsCmdLine(log[j]) /\ log[j].f = log[i].f /\ log[j].r = log[i].r + 1

\* s without its leading and trailing whitespace, by position.
Trimmed(s) ==
  LET solid == { i \in 1..Len(s) : s[i] \notin Whitespace }
  IN  IF solid = {} THEN <<>>
      ELSE SubSeq(s, CHOOSE i \in solid : \A j \in solid : i <= j,
                     CHOOSE i \in solid : \A j \in solid : j <= i)

\* The comma-delimited segments of s, left to right, by position.
Segments(s) ==
  LET cuts == {0, Len(s) + 1} \cup { i \in 1..Len(s) : s[i] = "," }
      cut(k) == CHOOSE c \in cuts : Cardinality({ d \in cuts : d < c }) = k - 1
  IN  [k \in 1..(Cardinality(cuts) - 1) |->
         SubSeq(s, cut(k) + 1, cut(k + 1) - 1)]

\* The command the claim describes for a titled row of pair f.
ExpectedCmd(row, f) ==
  LET field == IF "labels" \in DOMAIN row THEN row["labels"] ELSE <<>>
      trimmed == [k \in 1..Len(Segments(field)) |-> Trimmed(Segments(field)[k])]
      labels == SelectSeq(trimmed, LAMBDA l : l # <<>>)
  IN  << <<"gh">>, <<"issue">>, <<"create">>,
         <<"--repo">>, REPO,
         <<"--title">>, Trimmed(row["title"]),
         <<"--body">>, IF "body" \in DOMAIN row THEN row["body"] ELSE <<>>,
         <<"--milestone">>, PHASE_FILES[f].milestone >>
      \o [j \in 1..(2 * Len(labels)) |->
            IF j % 2 = 1 THEN <<"--label">> ELSE labels[j \div 2]]

\* C6: for every titled row the command built, printed and run carries the
\* configured repository, the trimmed title, the body (empty when the field
\* is absent, else unchanged), the milestone of the pair being processed and
\* one label option per non-empty trimmed comma-delimited segment of the
\* labels field, left to right (none when there is no such segment).
C6_CommandCarriesRow ==
  /\ pc \in {"print", "run", "wait"} => cmd = ExpectedCmd(fs[fi].rows[ri], fi)
  /\ \A i \in LogIdx :
       /\ log[i].ev = "spawn" =>
            log[i].cmd = ExpectedCmd(fs[log[i].f].rows[log[i].r], log[i].f)
       /\ IsCmdLine(log[i]) =>
            log[i].line
              = CmdLine(ExpectedCmd(fs[log[i].f].rows[log[i].r], log[i].f))

\* C6 witness: a command was run whose title had to be trimmed, whose body
\* needs quoting and which carries two different labels.
C6_Witness ==
  \E i \in LogIdx :
    /\ log[i].ev = "spawn"
    /\ Len(log[i].cmd) = 15
    /\ log[i].cmd[13] # log[i].cmd[15]
    /\ log[i].cmd[7] # fs[log[i].f].rows[log[i].r]["title"]
    /\ log[i].cmd[9] # <<>>

\* C7: external invocations happen one at a time (each has returned before
\* the next starts) and in input order: by row within a file, by PHASE_FILES
\* across files.
C7_InvocationsInOrder ==
  /\ Cardinality(running) <= 1
  /\ \A i \in LogIdx :
       log[i].ev = "spawn" =>
         /\ i < Len(log) =>
              (log[i + 1].ev = "returned" /\ log[i + 1].cmd = log[i].cmd)
         /\ \A j \in LogIdx :
              (i < j /\ log[j].ev = "spawn") =>
                \/ log[i].f < log[j].f
                \/ log[i].f = log[j].f /\ log[i].r < log[j].r

\* C7 witness: two invocations, for rows of different files.
C7_Witness ==
  \E i, j \in LogIdx :
    /\ i < j
    /\ log[i].ev = "spawn"
    /\ log[j].ev = "spawn"
    /\ log[i].f < log[j].f

\* C8: in normal mode every invocation comes right after the printing of
\* that same command, every printed command is run exactly once, and it has
\* returned before the next row is read; so a failing command has been
\* printed when the run aborts.
C8_PrintedThenRun ==
  ~DryRunMode =>
    \A i \in LogIdx :
      /\ log[i].ev = "spawn" =>
           /\ i > 1
           /\ log[i - 1] = Printed(log[i].f, log[i].r, CmdLine(log[i].cmd))
           /\ Cardinality({ j \in LogIdx :
                              /\ log[j].ev = "spawn"
                              /\ log[j].f = log[i].f
                              /\ log[j].r = log[i].r }) = 1
      /\ IsCmdLine(log[i]) =>
           IF i < Len(log)
             THEN /\ log[i + 1].ev = "spawn"
                  /\ log[i + 1].f = log[i].f
                  /\ log[i + 1].r = log[i].r
                  /\ i + 1 < Len(log) => log[i + 2].ev = "returned"
             ELSE pc = "run"
      /\ IsFailure(log[i]) =>
           /\ i > 2
           /\ log[i - 2] = Printed(log[i].f, log[i].r, CmdLine(log[i].cmd))
      /\ (log[i].ev = "read" /\ i > 1) =>
           log[i - 1].ev \notin {"spawn"} /\ ~IsCmdLine(log[i - 1])

\* C8 witness: a command was printed and run, and the next row was read.
C8_Witness ==
  /\ ~DryRunMode
  /\ \E i \in LogIdx :
       /\ log[i].ev = "spawn"
       /\ \E j \in LogIdx : j > i /\ log[j].ev = "read"

\* C9: the run ends with status zero and the completion message exactly
\* when all five pairs were passed over (absent, or read to the end) with no
\* fatal condition; on the placeholder or a failing command it ends non-zero
\* and the completion message is never printed.
C9_ExitStatus ==
  LET done(e) == e.ev = "print" /\ e.line = DoneLine
      fatal == REPO = PLACEHOLDER \/ \E i \in LogIdx : IsFailure(log[i])
      over(f) ==
        IF fs[f].is_file
          THEN /\ \E i \in LogIdx : log[i].ev = "open" /\ log[i].f = f
               /\ \A r \in 1..Len(fs[f].rows) :
                    \E i \in LogIdx :
                      log[i].ev = "read" /\ log[i].f = f /\ log[i].r = r
          ELSE \E i \in LogIdx :
                 log[i].ev = "print" /\ log[i].line = WarnFileLine(f)
  IN  /\ \A i \in LogIdx : done(log[i]) => (i = Len(log) /\ pc = "exited")
      /\ pc # "exited" => exit_status = <<>>
      /\ pc = "exited" =>
           /\ exit_status \in { << 0 >>, << 1 >> }
           /\ exit_status = << 0 >> <=> ~fatal
           /\ exit_status = << 0 >> <=> done(log[Len(log)])
           /\ exit_status = << 0 >> => \A f \in 1..NumFiles : over(f)
           /\ fatal =>
                (exit_status = << 1 >> /\ \A i \in LogIdx : ~done(log[i]))

\* C9 witness: all five files are absent and the run ended with status 0.
C9_Witness ==
  /\ pc = "exited"
  /\ exit_status = << 0 >>
  /\ \A f \in 1..NumFiles : ~fs[f].is_file

RECURSIVE SpawnedLines(_)
\* The command lines of the commands run in l, in order.
SpawnedLines(l) ==
  IF l = <<>> THEN <<>>
  ELSE (IF Head(l).ev = "spawn" THEN << CmdLine(Head(l).cmd) >> ELSE <<>>)
       \o SpawnedLines(Tail(l))

\* C10: over the same files and REPO, the commands a normal run prints and
\* runs are a prefix of the commands the dry run printed; the two are equal
\* when no command fails, and otherwise the normal run's end at the first
\* failing command.
C10_NormalIsPrefixOfDryRun ==
  (prev_stdout # <<>> /\ ~DryRunMode) =>
    LET dry == CmdLinesOf(prev_stdout)
        printed == CmdLinesOf(Stdout(log))
        ran == SpawnedLines(log)
    IN  /\ IsPrefix(printed, dry)
        /\ IsPrefix(ran, printed)
        /\ Len(printed) <= Len(ran) + 1
        /\ pc = "exited" =>
             /\ ran = printed
             /\ IF \E i \in LogIdx : IsFailure(log[i])
                  THEN /\ printed # <<>>
                       /\ printed[Len(printed)] = CmdLine(log[Len(log)].cmd)
                       /\ Count(IsFailure) = 1
                  ELSE printed = dry

\* C10 witness: the normal run failed at its first command while the dry
\* run had printed two.
C10_Witness ==
  /\ prev_stdout # <<>>
  /\ pc = "exited"
  /\ Len(CmdLinesOf(prev_stdout)) = 2
  /\ Len(SpawnedLines(log)) = 1
  /\ IsFailure(log[Len(log)])

====
